---- MODULE Spec2Model ----
(***************************************************************************)
(* Model of the Web3 session store (Web3ContextProvider): the session      *)
(* record kept with useState, the six operations the context exposes and   *)
(* the provider calls they suspend on.                                     *)
(*                                                                         *)
(* Every operation is an async function.  A call runs synchronously up to  *)
(* its first await, is then suspended until the awaited provider call      *)
(* answers (or rejects), and resumes in one step up to the next await.     *)
(* Calls are numbered in the order they are issued; several calls may be   *)
(* suspended at the same time.  setState(updater) applies the updater to   *)
(* the latest session record and the re-render that hands the new record   *)
(* to the operations is part of the same step.                             *)
(*                                                                         *)
(* Strings the code computes with (amounts, base-unit values) are          *)
(* sequences of one-character strings, e.g. "2.5" is <<"2", ".", "5">>.    *)
(***************************************************************************)
EXTENDS Integers, Sequences, FiniteSets, TLC

VARIABLES state, calls

vars == <<state, calls>>

----------------------------------------------------------------------------
(* Bounds *)

\* Number of operation calls issued during one session.
MaxCalls == 3

----------------------------------------------------------------------------
(* Program constants *)

MAX_GAS_LIMIT == 100000

\* utils.parseUnits(amount, 'ether'): the unit 'ether' has 18 decimals.
EtherDecimals == 18

\* JavaScript null, for the handle fields and for the account field.
null == [type |-> "null"]
nullAccount == "null"

\* Network id -> wrapped-token contract address (static table of the
\* configuration module, of which only the import is in the sources).
WROSE_CONTRACT_BY_NETWORK ==
    [n \in {"23294", "23295"} |->
        IF n = "23294" THEN "0xWROSE_mainnet" ELSE "0xWROSE_testnet"]

\* WROSE_CONTRACT_BY_NETWORK[network.chainId]; undefined when there is no entry.
ContractAddressOf(chainId) ==
    IF chainId \in DOMAIN WROSE_CONTRACT_BY_NETWORK
    THEN WROSE_CONTRACT_BY_NETWORK[chainId]
    ELSE "undefined"

----------------------------------------------------------------------------
(* Inputs and provider answers *)

\* Network ids the wallet may be on: two configured ones and an unknown one.
ChainIds == {"23294", "23295", "1"}

\* Accounts the wallet may grant.
Accounts == {"0xA1", "0xA2"}

Zeros(n) == [i \in 1..n |-> "0"]

AmtEmpty == <<>>
Amt2_5 == <<"2", ".", "5">>
Amt1 == <<"1">>
AmtBad == <<"a", "b", "c">>
AmtTiny == <<"0", ".">> \o Zeros(EtherDecimals) \o <<"1">>

\* Amount arguments the UI may pass to wrap / unwrap / the direct wrap.
Amounts == {AmtEmpty, Amt2_5, Amt1, AmtBad, AmtTiny}

\* Base-unit balances a balance query may answer with.
Balances == {<<"0">>, <<"2", "5">> \o Zeros(EtherDecimals - 1)}

----------------------------------------------------------------------------
(* Decimal strings: utils.parseUnits and utils.formatEther *)

DigitChars == {"0", "1", "2", "3", "4", "5", "6", "7", "8", "9"}

RECURSIVE StripLeadingZeros(_)
\* Decimal rendering of a non-negative number given by its digits.
StripLeadingZeros(s) ==
    IF Len(s) > 1 /\ Head(s) = "0" THEN StripLeadingZeros(Tail(s)) ELSE s

RECURSIVE StripTrailingZeros(_)
\* while (fraction[fraction.length - 1] === "0") fraction = fraction.substring(0, length - 1)
StripTrailingZeros(s) ==
    IF Len(s) > 0 /\ s[Len(s)] = "0"
    THEN StripTrailingZeros(SubSeq(s, 1, Len(s) - 1))
    ELSE s

\* Positions of "." in s.
DotPositions(s) == {i \in 1..Len(s) : s[i] = "."}

ParseError == [ok |-> FALSE]

\* The decimal string of whole * 10^decimals + fraction, with its sign.
WeiString(negative, whole, fraction, decimals) ==
    LET padded == fraction \o Zeros(decimals - Len(fraction))
        digits == StripLeadingZeros(whole \o padded)
    IN  IF negative /\ digits # <<"0">> THEN <<"-">> \o digits ELSE digits

\* utils.parseUnits(value, unit).toString() for a unit of `decimals` decimals
\* (ethers' parseFixed): [ok |-> TRUE, value |-> decimal string] or ParseError
\* when parseFixed throws.
parseUnits(value, decimals) ==
    LET negative == Len(value) > 0 /\ Head(value) = "-"
        body     == IF negative THEN Tail(value) ELSE value
        dots     == DotPositions(body)
        dot      == IF dots = {} THEN Len(body) + 1 ELSE CHOOSE i \in dots : TRUE
        whole0   == SubSeq(body, 1, dot - 1)
        frac0    == SubSeq(body, dot + 1, Len(body))
        whole    == IF whole0 = <<>> THEN <<"0">> ELSE whole0
        fraction == StripTrailingZeros(IF frac0 = <<>> THEN <<"0">> ELSE frac0)
    IN  IF body = <<>> \/ \E i \in 1..Len(body) : body[i] \notin DigitChars \cup {"."}
        THEN ParseError                      \* invalid decimal value
        ELSE IF body = <<".">>
        THEN ParseError                      \* missing value
        ELSE IF Cardinality(dots) > 1
        THEN ParseError                      \* too many decimal points
        ELSE IF Len(fraction) > decimals
        THEN ParseError                      \* fractional component exceeds decimals
        ELSE [ok |-> TRUE, value |-> WeiString(negative, whole, fraction, decimals)]

\* utils.formatEther(balanceString) for a non-negative base-unit string
\* (ethers' formatFixed with 18 decimals).
formatEther(wei) ==
    LET padded   == Zeros(EtherDecimals + 1 - Len(wei)) \o wei
        cut      == Len(padded) - EtherDecimals
        whole    == StripLeadingZeros(SubSeq(padded, 1, cut))
        frac0    == StripTrailingZeros(SubSeq(padded, cut + 1, Len(padded)))
        fraction == IF frac0 = <<>> THEN <<"0">> ELSE frac0
    IN  whole \o <<".">> \o fraction

\* formatEther of every balance a query may answer with, computed once.
formatEtherOf == [wei \in Balances |-> formatEther(wei)]

----------------------------------------------------------------------------
(* Session state (interface Web3ProviderState) *)

web3ProviderInitialState ==
    [isConnected         |-> FALSE,
     ethProvider         |-> null,
     sapphireEthProvider |-> null,
     wRoseContract       |-> null,
     account             |-> nullAccount]

\* new ethers.providers.Web3Provider(window.ethereum), built by call c.
Web3Provider(c) == [type |-> "Web3Provider", by |-> c]

\* sapphire.wrap(ethProvider)
SapphireWrap(ethProvider) == [type |-> "SapphireProvider", by |-> ethProvider.by]

\* Contract bound to the Sapphire testnet address whatever the network.
Contract_testnetOnly(contractAddress, sapphireEthProvider) ==
    [type |-> "Contract", address |-> "0xWROSE_testnet", by |-> sapphireEthProvider.by]

\* new ethers.Contract(contractAddress, abi, sapphireEthProvider.getSigner())
Contract(contractAddress, sapphireEthProvider) ==
    [type |-> "Contract", address |-> contractAddress, by |-> sapphireEthProvider.by]

\* InitSucceeded with the base provider left out of the new record.
InitSucceeded_withoutEthProvider(prevState, ethProvider, sapphireEthProvider, wRoseContract, account) ==
    [prevState EXCEPT !.isConnected = TRUE,
                      !.sapphireEthProvider = sapphireEthProvider,
                      !.wRoseContract = wRoseContract,
                      !.account = account]

\* InitSucceeded with the account left out of the new record.
InitSucceeded_withoutAccount(prevState, ethProvider, sapphireEthProvider, wRoseContract, account) ==
    [prevState EXCEPT !.isConnected = TRUE,
                      !.ethProvider = ethProvider,
                      !.sapphireEthProvider = sapphireEthProvider,
                      !.wRoseContract = wRoseContract]

\* The updater of the try branch of _init.
InitSucceeded(prevState, ethProvider, sapphireEthProvider, wRoseContract, account) ==
    [prevState EXCEPT !.isConnected = TRUE,
                      !.ethProvider = ethProvider,
                      !.sapphireEthProvider = sapphireEthProvider,
                      !.wRoseContract = wRoseContract,
                      !.account = account]

\* InitFailed leaving the record as it is.
InitFailed_keepsFlag(prevState) == prevState

\* InitFailed with the flag of the try branch.
InitFailed_flagTrue(prevState) == [prevState EXCEPT !.isConnected = TRUE]

\* The updater of the catch branch of _init.
InitFailed(prevState) == [prevState EXCEPT !.isConnected = FALSE]

----------------------------------------------------------------------------
(* Calls *)

Calls == 1..MaxCalls

Operations == {"connectWallet", "balance", "balanceOfWROSE", "wrap", "unwrap",
               "wrapBySendingROSEDirectlyToContract"}

\* A call slot that has not been used yet.
IdleCall ==
    [op      |-> "none",
     pc      |-> "idle",       \* idle, await..., done
     amount  |-> <<>>,         \* the amount argument
     account |-> nullAccount,  \* connectWallet: the account the wallet granted
     chainId |-> "none",       \* connectWallet: the network id detected
     result  |-> "pending",    \* pending, ok (the promise resolved) or the error thrown
     ret     |-> <<>>,         \* the value returned; <<>> is undefined
     sent    |-> <<>>,         \* the requests the call has issued, in order
     wasConnected |-> FALSE]   \* state.isConnected when the call was issued

\* Call c is the next call to be issued.
Fresh(c) == calls[c].pc = "idle" /\ \A d \in 1..(c - 1) : calls[d].pc # "idle"

\* The record of a call of op issued now.
Started(c, op) == [IdleCall EXCEPT !.op = op, !.wasConnected = state.isConnected]

\* The call's promise resolves with ret.
Returned(call, ret) == [call EXCEPT !.pc = "done", !.result = "ok", !.ret = ret]

\* The call's promise rejects with error.
Thrown(call, error) == [call EXCEPT !.pc = "done", !.result = error]

\* The call issues request and is suspended at pc until it is answered.
Awaiting(call, pc, request) ==
    [call EXCEPT !.pc = pc, !.sent = Append(@, request)]

\* AccountMissing with the check left out.
AccountMissing_never(account) == FALSE

\* !account (lines 91, 102, 113, 138): null, undefined and "" are falsy.
AccountMissing(account) == account \in {nullAccount, "undefined", ""}

\* AmountMissing with the check left out.
AmountMissing_never(amount) == FALSE

\* !amount (lines 121, 183): the empty string is falsy.
AmountMissing(amount) == amount = <<>>

\* UnsupportedNetwork with the check left out.
UnsupportedNetwork_never(contractAddress) == FALSE

\* !contractAddress (line 58)
UnsupportedNetwork(contractAddress) == contractAddress = "undefined"

----------------------------------------------------------------------------
(* connectWallet and _init *)

\* connectWallet() up to the await of the account request.
connectWallet(c) ==
    /\ Fresh(c)
    /\ calls' = [calls EXCEPT ![c] =
          Awaiting(Started(c, "connectWallet"), "awaitAccounts",
                   [method |-> "eth_requestAccounts"])]
    /\ UNCHANGED state

\* The request eth_requestAccounts rejects: connectWallet rejects with it.
connectWallet_rejected(c) ==
    /\ calls[c].pc = "awaitAccounts"
    /\ calls' = [calls EXCEPT ![c] = Thrown(@, "ProviderError")]
    /\ UNCHANGED state

\* The account request answers with [account] (account "undefined": the empty
\* list).  Without an account connectWallet throws; with one it enters _init,
\* which builds the two providers and awaits getNetwork().
connectWallet_accounts(c, account) ==
    /\ calls[c].pc = "awaitAccounts"
    /\ IF AccountMissing(account)
       THEN calls' = [calls EXCEPT ![c] =
               Thrown([@ EXCEPT !.account = account], "AccountRequestError")]
       ELSE LET ethProvider == Web3Provider(c)
                sapphireEthProvider == SapphireWrap(ethProvider)
            IN  calls' = [calls EXCEPT ![c] =
                   Awaiting([@ EXCEPT !.account = account], "awaitNetwork",
                            [method |-> "getNetwork", provider |-> sapphireEthProvider])]
    /\ UNCHANGED state

\* The catch branch of _init.
_init_catch(c, chainId) ==
    /\ state' = InitFailed(state)
    /\ calls' = [calls EXCEPT ![c] =
          Thrown([@ EXCEPT !.chainId = chainId], "InitializationError")]

\* _init_rejected with the rejection swallowed: the promise of the call is
\* never settled.
_init_rejected_neverSettles(c) ==
    /\ calls[c].pc = "awaitNetwork"
    /\ calls' = [calls EXCEPT ![c].pc = "awaitNothing"]
    /\ UNCHANGED state

\* getNetwork() rejects inside _init.
_init_rejected(c) ==
    /\ calls[c].pc = "awaitNetwork"
    /\ _init_catch(c, "none")

\* getNetwork() answers with chainId: the rest of _init.
_init_network(c, chainId) ==
    /\ calls[c].pc = "awaitNetwork"
    /\ LET ethProvider == Web3Provider(c)
           sapphireEthProvider == SapphireWrap(ethProvider)
           contractAddress == ContractAddressOf(chainId)
       IN  IF UnsupportedNetwork(contractAddress)
           THEN _init_catch(c, chainId)
           ELSE /\ state' = InitSucceeded(state, ethProvider, sapphireEthProvider,
                                Contract(contractAddress, sapphireEthProvider),
                                calls[c].account)
                /\ calls' = [calls EXCEPT ![c] =
                      Returned([@ EXCEPT !.chainId = chainId], <<>>)]

----------------------------------------------------------------------------
(* balance and balanceOfWROSE *)

\* balance() up to the await of getBalance.
balance(c) ==
    /\ Fresh(c)
    /\ LET call == Started(c, "balance")
       IN  IF AccountMissing(state.account) \/ state.sapphireEthProvider = null
           THEN calls' = [calls EXCEPT ![c] = Returned(call, <<>>)]
           ELSE calls' = [calls EXCEPT ![c] =
                   Awaiting(call, "awaitBalance",
                            [method |-> "getBalance",
                             provider |-> state.sapphireEthProvider,
                             account |-> state.account])]
    /\ UNCHANGED state

\* balanceOfWROSE() up to the await of balanceOf.
balanceOfWROSE(c) ==
    /\ Fresh(c)
    /\ LET call == Started(c, "balanceOfWROSE")
       IN  IF AccountMissing(state.account) \/ state.wRoseContract = null
           THEN calls' = [calls EXCEPT ![c] = Returned(call, <<>>)]
           ELSE calls' = [calls EXCEPT ![c] =
                   Awaiting(call, "awaitBalance",
                            [method |-> "balanceOf",
                             contract |-> state.wRoseContract,
                             account |-> state.account])]
    /\ UNCHANGED state

\* The balance query answers with a base-unit amount: formatEther of its string.
balance_answered(c, wei) ==
    /\ calls[c].pc = "awaitBalance"
    /\ calls' = [calls EXCEPT ![c] = Returned(@, formatEtherOf[wei])]
    /\ UNCHANGED state

\* The balance query rejects.
balance_rejected(c) ==
    /\ calls[c].pc = "awaitBalance"
    /\ calls' = [calls EXCEPT ![c] = Thrown(@, "ProviderError")]
    /\ UNCHANGED state

----------------------------------------------------------------------------
(* wrap and unwrap *)

\* DepositRequest with the gas price ceiling switched on.
DepositRequest_withGasPrice(wRoseContract, value) ==
    [method    |-> "deposit",
     contract  |-> wRoseContract,
     args      |-> <<>>,
     overrides |-> [value |-> value, gasLimit |-> MAX_GAS_LIMIT,
                    gasPrice |-> <<"1">> \o Zeros(11)]]

\* wRoseContract.deposit({ value, gasLimit: MAX_GAS_LIMIT }): no arguments,
\* the amount as transaction value, no gasPrice override.
DepositRequest(wRoseContract, value) ==
    [method    |-> "deposit",
     contract  |-> wRoseContract,
     args      |-> <<>>,
     overrides |-> [value |-> value, gasLimit |-> MAX_GAS_LIMIT]]

\* WithdrawRequest with the amount passed as transaction value, as deposit does.
WithdrawRequest_asValue(wRoseContract, value) ==
    [method    |-> "withdraw",
     contract  |-> wRoseContract,
     args      |-> <<>>,
     overrides |-> [value |-> value, gasLimit |-> MAX_GAS_LIMIT]]

\* wRoseContract.withdraw(value, { gasLimit: MAX_GAS_LIMIT }): the amount as
\* the argument, no transaction value.
WithdrawRequest(wRoseContract, value) ==
    [method    |-> "withdraw",
     contract  |-> wRoseContract,
     args      |-> <<value>>,
     overrides |-> [gasLimit |-> MAX_GAS_LIMIT]]

\* wrap with in-flight tracking: a no-op while another wrap awaits its
\* submission response.
wrap_exclusive(c, amount) ==
    /\ Fresh(c)
    /\ LET call == [Started(c, "wrap") EXCEPT !.amount = amount]
           parsed == parseUnits(amount, EtherDecimals)
           busy == \E d \in Calls : calls[d].op = "wrap" /\ calls[d].pc = "awaitSubmit"
       IN  calls' = [calls EXCEPT ![c] =
              IF AmountMissing(amount) THEN Thrown(call, "MissingAmountError")
              ELSE IF state.wRoseContract = null \/ busy THEN Returned(call, <<>>)
              ELSE IF ~parsed.ok THEN Thrown(call, "ParseUnitsError")
              ELSE Awaiting(call, "awaitSubmit",
                            DepositRequest(state.wRoseContract, parsed.value))]
    /\ UNCHANGED state

\* wrap(amount) up to the await of deposit.
wrap(c, amount) ==
    /\ Fresh(c)
    /\ LET call == [Started(c, "wrap") EXCEPT !.amount = amount]
           parsed == parseUnits(amount, EtherDecimals)
       IN  calls' = [calls EXCEPT ![c] =
              IF AmountMissing(amount) THEN Thrown(call, "MissingAmountError")
              ELSE IF state.wRoseContract = null THEN Returned(call, <<>>)
              ELSE IF ~parsed.ok THEN Thrown(call, "ParseUnitsError")
              ELSE Awaiting(call, "awaitSubmit",
                            DepositRequest(state.wRoseContract, parsed.value))]
    /\ UNCHANGED state

\* unwrap(amount) up to the await of withdraw.
unwrap(c, amount) ==
    /\ Fresh(c)
    /\ LET call == [Started(c, "unwrap") EXCEPT !.amount = amount]
           parsed == parseUnits(amount, EtherDecimals)
       IN  calls' = [calls EXCEPT ![c] =
              IF AmountMissing(amount) THEN Thrown(call, "MissingAmountError")
              ELSE IF state.wRoseContract = null THEN Returned(call, <<>>)
              ELSE IF ~parsed.ok THEN Thrown(call, "ParseUnitsError")
              ELSE Awaiting(call, "awaitSubmit",
                            WithdrawRequest(state.wRoseContract, parsed.value))]
    /\ UNCHANGED state

\* The submission (deposit, withdraw or eth_sendTransaction) answers: the
\* operation returns without waiting for the transaction to be mined.
submit_answered(c) ==
    /\ calls[c].pc = "awaitSubmit"
    /\ calls' = [calls EXCEPT ![c] = Returned(@, <<>>)]
    /\ UNCHANGED state

\* submit_rejected marking the session disconnected.
submit_rejected_disconnects(c) ==
    /\ calls[c].pc = "awaitSubmit"
    /\ calls' = [calls EXCEPT ![c] = Thrown(@, "ProviderError")]
    /\ state' = [state EXCEPT !.isConnected = FALSE]

\* The submission rejects (the user refuses to sign, the node refuses).
submit_rejected(c) ==
    /\ calls[c].pc = "awaitSubmit"
    /\ calls' = [calls EXCEPT ![c] = Thrown(@, "ProviderError")]
    /\ UNCHANGED state

----------------------------------------------------------------------------
(* wrapBySendingROSEDirectlyToContract *)

\* JavaScript values of a transaction's numeric fields.
Num(n) == [t |-> "number", v |-> n]
Big(digits) == [t |-> "BigNumber", v |-> digits]
Str(chars) == [t |-> "string", v |-> chars]

RECURSIVE ToDigits(_)
\* The decimal string of a non-negative number.
ToDigits(n) ==
    LET d == <<"0", "1", "2", "3", "4", "5", "6", "7", "8", "9">>[(n % 10) + 1]
    IN  IF n < 10 THEN <<d>> ELSE Append(ToDigits(n \div 10), d)

\* value.toString()
toString(value) ==
    IF value.t = "number" THEN Str(ToDigits(value.v)) ELSE Str(value.v)

\* toStringKeys with the gas price forgotten.
toStringKeys_withoutGasPrice == {"gasLimit", "nonce"}

toStringKeys == {"gasLimit", "gasPrice", "nonce"}

\* Object.entries(tx).reduce(...): the keys of toStringKeys stringified.
toStringTx(tx) ==
    [key \in DOMAIN tx |->
        IF key \in toStringKeys THEN toString(tx[key]) ELSE tx[key]]

\* What signer.populateTransaction adds to the transaction: the nonce and the
\* chain id as numbers and the fee fields as BigNumbers: gasPrice on a legacy
\* network, the EIP-1559 pair otherwise.
Populated ==
    { [nonce |-> Num(7), chainId |-> Num(23295),
       gasPrice |-> Big(<<"1">> \o Zeros(11))],
      [nonce |-> Num(0), chainId |-> Num(23294), type |-> Num(2),
       maxFeePerGas |-> Big(<<"2">> \o Zeros(11)),
       maxPriorityFeePerGas |-> Big(<<"1">> \o Zeros(9))] }

\* Record r with the fields of more added.
Merge(r, more) ==
    [key \in DOMAIN r \cup DOMAIN more |->
        IF key \in DOMAIN more THEN more[key] ELSE r[key]]

\* The direct wrap with the amount converted before the handles are tested.
wrapBySendingROSEDirectlyToContract_parsesFirst(c, amount) ==
    /\ Fresh(c)
    /\ LET call == [Started(c, "wrapBySendingROSEDirectlyToContract")
                       EXCEPT !.amount = amount]
           parsed == parseUnits(amount, EtherDecimals)
       IN  calls' = [calls EXCEPT ![c] =
              IF ~parsed.ok THEN Thrown(call, "ParseUnitsError")
              ELSE IF \/ AccountMissing(state.account)
                      \/ state.ethProvider = null
                      \/ state.wRoseContract = null
              THEN Returned(call, <<>>)
              ELSE Awaiting(call, "awaitPopulate",
                      [method |-> "populateTransaction",
                       signer |-> [type |-> "VoidSigner",
                                   address |-> state.account,
                                   provider |-> state.ethProvider],
                       tx |-> [from |-> state.account,
                               to |-> state.wRoseContract.address,
                               value |-> parsed.value,
                               gasLimit |-> Num(MAX_GAS_LIMIT)]])]
    /\ UNCHANGED state

\* wrapBySendingROSEDirectlyToContract(amount) up to the await of
\* signer.populateTransaction.
wrapBySendingROSEDirectlyToContract(c, amount) ==
    /\ Fresh(c)
    /\ LET call == [Started(c, "wrapBySendingROSEDirectlyToContract")
                       EXCEPT !.amount = amount]
           parsed == parseUnits(amount, EtherDecimals)
       IN  calls' = [calls EXCEPT ![c] =
              IF \/ AccountMissing(state.account)
                 \/ state.ethProvider = null
                 \/ state.wRoseContract = null
              THEN Returned(call, <<>>)
              ELSE IF ~parsed.ok THEN Thrown(call, "ParseUnitsError")
              ELSE Awaiting(call, "awaitPopulate",
                      [method |-> "populateTransaction",
                       signer |-> [type |-> "VoidSigner",
                                   address |-> state.account,
                                   provider |-> state.ethProvider],
                       tx |-> [from |-> state.account,
                               to |-> state.wRoseContract.address,
                               value |-> parsed.value,
                               gasLimit |-> Num(MAX_GAS_LIMIT)]])]
    /\ UNCHANGED state

\* populateTransaction answers: the transaction is stringified and sent
\* through window.ethereum.request.
populate_answered(c, populated) ==
    /\ calls[c].pc = "awaitPopulate"
    /\ LET tx == Merge(calls[c].sent[1].tx, populated)
       IN  calls' = [calls EXCEPT ![c] =
              Awaiting(@, "awaitSubmit",
                       [method |-> "eth_sendTransaction",
                        params |-> <<toStringTx(tx)>>])]
    /\ UNCHANGED state

\* populateTransaction rejects.
populate_rejected(c) ==
    /\ calls[c].pc = "awaitPopulate"
    /\ calls' = [calls EXCEPT ![c] = Thrown(@, "ProviderError")]
    /\ UNCHANGED state

----------------------------------------------------------------------------
(* Specification *)

Init ==
    /\ state = web3ProviderInitialState
    /\ calls = [c \in Calls |-> IdleCall]

Next ==
    \E c \in Calls :
        \/ connectWallet(c)
        \/ connectWallet_rejected(c)
        \/ \E account \in Accounts \cup {"undefined"} : connectWallet_accounts(c, account)
        \/ _init_rejected(c)
        \/ \E chainId \in ChainIds : _init_network(c, chainId)
        \/ balance(c)
        \/ balanceOfWROSE(c)
        \/ \E wei \in Balances : balance_answered(c, wei)
        \/ balance_rejected(c)
        \/ \E amount \in Amounts : wrap(c, amount)
        \/ \E amount \in Amounts : unwrap(c, amount)
        \/ submit_answered(c)
        \/ submit_rejected(c)
        \/ \E amount \in Amounts : wrapBySendingROSEDirectlyToContract(c, amount)
        \/ \E populated \in Populated : populate_answered(c, populated)
        \/ populate_rejected(c)

Spec == Init /\ [][Next]_vars

----------------------------------------------------------------------------
(* Steps and outcomes the properties speak about *)

\* This step issues call c.
Issued(c) == calls[c].pc = "idle" /\ calls'[c].pc # "idle"

\* This step completes call c (its promise resolves or rejects).
Completed(c) == calls[c].pc # "done" /\ calls'[c].pc = "done"

\* This step ends the initializer of connect call c in failure: getNetwork
\* rejected (no network id) or the network id has no configured address.
InitFails(c) ==
    /\ calls[c].pc = "awaitNetwork"
    /\ Completed(c)
    /\ calls'[c].chainId \notin DOMAIN WROSE_CONTRACT_BY_NETWORK

\* This step ends the initializer of connect call c with every provider call
\* answered and the network id configured.
InitSucceeds(c) ==
    /\ calls[c].pc = "awaitNetwork"
    /\ Completed(c)
    /\ calls'[c].chainId \in DOMAIN WROSE_CONTRACT_BY_NETWORK

\* The four connection fields of a session record are all null.
NoHandles(s) ==
    /\ s.ethProvider = null
    /\ s.sapphireEthProvider = null
    /\ s.wRoseContract = null
    /\ s.account = nullAccount

\* The four connection fields of a session record are all set.
AllHandles(s) ==
    /\ s.ethProvider # null
    /\ s.sapphireEthProvider # null
    /\ s.wRoseContract # null
    /\ ~AccountMissing(s.account)

\* Connect call d has completed successfully / in an initialization failure.
ConnectedBy(d) ==
    calls[d].op = "connectWallet" /\ calls[d].pc = "done" /\ calls[d].result = "ok"
InitFailedIn(d) ==
    /\ calls[d].op = "connectWallet" /\ calls[d].pc = "done"
    /\ calls[d].result = "InitializationError"

\* The requests of call c that reach the network: every request it issued.
NoNetworkInteraction(call) == call.sent = <<>>

----------------------------------------------------------------------------
(* C1 *)

\* C1: every failed initialization (unmapped network id, or a provider call
\* throwing inside the initializer), from any prior session state, leaves the
\* session state exactly the disconnected record (isConnected false, the two
\* providers, the contract and the account null) and the caller receives
\* InitializationError.
C1_FailedInitResetsState ==
    [][\A c \in Calls :
          InitFails(c) =>
             /\ calls'[c].result = "InitializationError"
             /\ state' = web3ProviderInitialState]_vars

----------------------------------------------------------------------------
(* C2 *)

\* C2: in every reachable state, isConnected implies that the two providers,
\* the contract and the account are all non-null, that the account is the one
\* the account request of the connect that set the handles returned, and
\* that the contract's address is the configured address of the network id
\* that same connect detected.
C2_ConnectedImpliesConsistent ==
    state.isConnected =>
       /\ AllHandles(state)
       /\ LET d == state.wRoseContract.by
          IN  /\ calls[d].op = "connectWallet"
              /\ state.ethProvider.by = d
              /\ state.sapphireEthProvider.by = d
              /\ state.account = calls[d].account
              /\ calls[d].chainId \in DOMAIN WROSE_CONTRACT_BY_NETWORK
              /\ state.wRoseContract.address = WROSE_CONTRACT_BY_NETWORK[calls[d].chainId]

\* Connected by a second connect, on another account and network than the
\* first one, with a failed connect in between or around.
C2_Witness ==
    /\ state.isConnected
    /\ \E d, e, f \in Calls :
          /\ d < e
          /\ ConnectedBy(d) /\ ConnectedBy(e) /\ InitFailedIn(f)
          /\ state.wRoseContract.by = e
          /\ calls[d].account # calls[e].account
          /\ calls[d].chainId # calls[e].chainId

----------------------------------------------------------------------------
(* C3 *)

QueryOrSubmit == {"balance", "balanceOfWROSE", "wrap", "unwrap"}

\* C3: a call of wrap or unwrap with a non-empty amount, or of balance or
\* balanceOfWROSE, issued in a state with isConnected false returns without
\* throwing and issues no balance query and no transaction submission.
C3_DisconnectedCallsAreNoOps ==
    \A c \in Calls :
       ( /\ calls[c].op \in QueryOrSubmit
         /\ ~calls[c].wasConnected
         /\ (calls[c].op \in {"wrap", "unwrap"} => calls[c].amount # <<>>) )
       => /\ calls[c].pc = "done"
          /\ calls[c].result = "ok"
          /\ NoNetworkInteraction(calls[c])

----------------------------------------------------------------------------
(* C4 *)

\* C4: every connectWallet call that completes successfully (account
\* returned, network id in the table, no provider call throws) leaves
\* isConnected true, the four handle fields non-null, the account equal to
\* the account the provider returned to that call and the contract bound to
\* the address mapped to the network id it detected.
C4_SuccessfulConnectSetsAll ==
    [][\A c \in Calls :
          InitSucceeds(c) =>
             /\ calls'[c].result = "ok"
             /\ state'.isConnected
             /\ AllHandles(state')
             /\ state'.account = calls'[c].account
             /\ state'.wRoseContract.address = WROSE_CONTRACT_BY_NETWORK[calls'[c].chainId]
             /\ state'.ethProvider = Web3Provider(c)
             /\ state'.sapphireEthProvider.by = c
             /\ state'.wRoseContract.by = c]_vars

\* A connect has succeeded on the mainnet id and holds the session.
C4_Witness ==
    \E c \in Calls :
       /\ ConnectedBy(c)
       /\ calls[c].chainId = "23294"
       /\ state.isConnected
       /\ state.wRoseContract.by = c

----------------------------------------------------------------------------
(* C5 *)

\* C5: a wrap or unwrap call with an empty amount, in any session state,
\* fails with MissingAmountError before any network interaction and leaves
\* the session state unchanged.
C5_MissingAmountFailsFirst ==
    [][\A c \in Calls :
          ( /\ Issued(c)
            /\ calls'[c].op \in {"wrap", "unwrap"}
            /\ calls'[c].amount = <<>> )
          => /\ calls'[c].pc = "done"
             /\ calls'[c].result = "MissingAmountError"
             /\ NoNetworkInteraction(calls'[c])
             /\ state' = state]_vars

\* wrap and unwrap were each called with an empty amount while connected.
C5_Witness ==
    \E c, d \in Calls :
       /\ calls[c].op = "wrap" /\ calls[d].op = "unwrap"
       /\ calls[c].amount = <<>> /\ calls[d].amount = <<>>
       /\ calls[c].wasConnected /\ calls[d].wasConnected
       /\ calls[c].pc = "done" /\ calls[d].pc = "done"

----------------------------------------------------------------------------
(* C6 *)

\* C6: isConnected changes from false to true only in a step that completes
\* a successful connectWallet, and from true to false only in a step that
\* completes a failed (re)connect attempt; no other step changes it.
C6_ConnectionStateMachine ==
    [][state'.isConnected # state.isConnected =>
          \E c \in Calls :
             /\ calls'[c].op = "connectWallet"
             /\ IF state'.isConnected
                THEN InitSucceeds(c) /\ calls'[c].result = "ok"
                ELSE InitFails(c) /\ calls'[c].result = "InitializationError"]_vars

\* The session went Disconnected -> Connected -> Disconnected: a connect
\* succeeded, a later one failed, and the session is disconnected.
C6_Witness ==
    /\ ~state.isConnected
    /\ \E d, e \in Calls :
          ConnectedBy(d) /\ InitFailedIn(e) /\ calls[e].wasConnected

----------------------------------------------------------------------------
(* C7 *)

NonConnectOperations == Operations \ {"connectWallet"}

\* C7: no step of a balance, balanceOfWROSE, wrap, unwrap or direct-wrap call,
\* whatever its outcome, changes the session state; every step that changes
\* it is a step of a connect call.
C7_OnlyConnectWritesState ==
    [][/\ \A c \in Calls :
             (calls'[c] # calls[c] /\ calls'[c].op \in NonConnectOperations)
             => state' = state
       /\ state' # state =>
             \E c \in Calls : calls'[c] # calls[c] /\ calls'[c].op = "connectWallet"]_vars

\* While connected, a submission was rejected (the call threw), a balance
\* query was answered and the session is still connected.
C7_Witness ==
    /\ state.isConnected
    /\ \E c, d \in Calls :
          /\ calls[c].op \in {"wrap", "unwrap", "wrapBySendingROSEDirectlyToContract"}
          /\ calls[c].wasConnected /\ calls[c].result = "ProviderError"
          /\ calls[d].op \in {"balance", "balanceOfWROSE"}
          /\ calls[d].wasConnected /\ calls[d].pc = "done" /\ calls[d].ret # <<>>

----------------------------------------------------------------------------
(* C8 *)

\* C8: when the account request returns no account, connectWallet fails with
\* AccountRequestError, the initializer is not started (no further request,
\* no network query) and the session state is left as it was.
C8_NoAccountFailsBeforeInit ==
    [][\A c \in Calls :
          (calls[c].pc = "awaitAccounts" /\ calls'[c].account = "undefined")
          => /\ Completed(c)
             /\ calls'[c].result = "AccountRequestError"
             /\ calls'[c].sent = <<[method |-> "eth_requestAccounts"]>>
             /\ state' = state]_vars

\* A connect issued on a connected session got no account, and the session
\* is still connected.
C8_Witness ==
    \E c \in Calls :
       /\ calls[c].op = "connectWallet"
       /\ calls[c].wasConnected
       /\ calls[c].account = "undefined"
       /\ calls[c].pc = "done"
       /\ state.isConnected

----------------------------------------------------------------------------
(* C9 *)

\* C9: in the initial Disconnected state, a connectWallet that detects a
\* network id without a table entry throws InitializationError, builds no
\* contract handle and leaves the state disconnected with the handle fields
\* and the account null.
C9_UnmappedNetworkFromInitial ==
    [][\A c \in Calls :
          ( /\ InitFails(c)
            /\ calls'[c].chainId \in ChainIds
            /\ state = web3ProviderInitialState )
          => /\ calls'[c].result = "InitializationError"
             /\ ~state'.isConnected
             /\ NoHandles(state')]_vars

\* The first connect of the session detected the unmapped id 1 and failed.
C9_Witness ==
    /\ calls[1].op = "connectWallet"
    /\ calls[1].chainId = "1"
    /\ calls[1].pc = "done"
    /\ \A d \in Calls \ {1} : calls[d].pc = "idle"
    /\ state = web3ProviderInitialState

----------------------------------------------------------------------------
(* C10 *)

\* The digits of amount before and after its decimal point, and its sign.
Unsigned(amount) ==
    IF amount # <<>> /\ Head(amount) = "-" THEN Tail(amount) ELSE amount
WholeDigits(amount) ==
    LET body == Unsigned(amount)
        point == CHOOSE i \in 1..(Len(body) + 1) :
                    /\ i = Len(body) + 1 \/ body[i] = "."
                    /\ \A j \in 1..(i - 1) : body[j] # "."
    IN  SubSeq(body, 1, point - 1)
FractionDigits(amount) ==
    LET body == Unsigned(amount)
    IN  SubSeq(body, Len(WholeDigits(amount)) + 2, Len(body))

\* amount is a decimal numeral that has a value in base units: digits with at
\* most one decimal point, at least one digit, and no non-zero digit beyond
\* the 18th decimal.
IsDecimalAmount(amount) ==
    LET body == Unsigned(amount)
        frac == FractionDigits(amount)
    IN  /\ \A i \in 1..Len(body) : body[i] \in DigitChars \cup {"."}
        /\ \A i \in 1..Len(frac) : frac[i] # "."
        /\ Len(WholeDigits(amount)) + Len(frac) > 0
        /\ \A i \in 1..Len(frac) : i > EtherDecimals => frac[i] = "0"

\* value is the decimal string of amount * 10^18: with k the number of
\* decimals of amount and N its digits without the point, value * 10^k =
\* N * 10^18 (a multiplication by a power of ten appends zeros).
IsAmountInBaseUnits(value, amount) ==
    LET k == Len(FractionDigits(amount))
        N == WholeDigits(amount) \o FractionDigits(amount)
        magnitude == Unsigned(value)
    IN  /\ value # <<>>
        /\ StripLeadingZeros(magnitude) = magnitude
        /\ StripLeadingZeros(magnitude \o Zeros(k)) =
              StripLeadingZeros(N \o Zeros(EtherDecimals))
        /\ (Head(value) = "-") <=> (Head(amount) = "-" /\ magnitude # <<"0">>)

\* The single request of call is a deposit on contract handle wRoseContract
\* with no arguments, amount * 10^18 as value, the gas limit 100000 and no
\* other override (no gas price).
DepositsOnce(call, wRoseContract) ==
    /\ Len(call.sent) = 1
    /\ call.sent[1].method = "deposit"
    /\ call.sent[1].contract = wRoseContract
    /\ call.sent[1].args = <<>>
    /\ DOMAIN call.sent[1].overrides = {"value", "gasLimit"}
    /\ call.sent[1].overrides.gasLimit = 100000
    /\ IsAmountInBaseUnits(call.sent[1].overrides.value, call.amount)

\* C10 as stated: while connected, each wrap(amount) call with a non-empty
\* amount invokes deposit exactly once, with no arguments, value amount *
\* 10^18, gas limit 100000 and no gas price, and submits nothing else.
C10_WrapDepositsOnce ==
    \A c \in Calls :
       (calls[c].op = "wrap" /\ calls[c].wasConnected /\ calls[c].amount # <<>>)
       => \E d \in Calls :
             /\ ConnectedBy(d)
             /\ DepositsOnce(calls[c], Contract(WROSE_CONTRACT_BY_NETWORK[calls[d].chainId],
                                                SapphireWrap(Web3Provider(d))))

\* C10 amended: the same, for every non-empty amount that is a decimal
\* numeral with no non-zero digit beyond the 18th decimal.
C10_WrapDepositsOnce_Decimal ==
    \A c \in Calls :
       ( /\ calls[c].op = "wrap" /\ calls[c].wasConnected /\ calls[c].amount # <<>>
         /\ IsDecimalAmount(calls[c].amount) )
       => \E d \in Calls :
             /\ ConnectedBy(d)
             /\ DepositsOnce(calls[c], Contract(WROSE_CONTRACT_BY_NETWORK[calls[d].chainId],
                                                SapphireWrap(Web3Provider(d))))

\* wrap("2.5") was called while connected and has returned.
C10_Witness ==
    \E c \in Calls :
       /\ calls[c].op = "wrap"
       /\ calls[c].wasConnected
       /\ calls[c].amount = Amt2_5
       /\ calls[c].pc = "done" /\ calls[c].result = "ok"
       /\ calls[c].sent[1].overrides.value = <<"2", "5">> \o Zeros(17)

----------------------------------------------------------------------------
(* C11 *)

\* The single request of call is a withdraw on contract handle wRoseContract
\* with amount * 10^18 as its one argument, no transaction value, and the
\* gas limit 100000 as its only override.
WithdrawsOnce(call, wRoseContract) ==
    /\ Len(call.sent) = 1
    /\ call.sent[1].method = "withdraw"
    /\ call.sent[1].contract = wRoseContract
    /\ Len(call.sent[1].args) = 1
    /\ IsAmountInBaseUnits(call.sent[1].args[1], call.amount)
    /\ DOMAIN call.sent[1].overrides = {"gasLimit"}
    /\ call.sent[1].overrides.gasLimit = 100000

\* C11 as stated: while connected, each unwrap(amount) call with a non-empty
\* amount invokes withdraw exactly once with amount * 10^18 as the explicit
\* argument, no transaction value and gas limit 100000.
C11_UnwrapWithdrawsOnce ==
    \A c \in Calls :
       (calls[c].op = "unwrap" /\ calls[c].wasConnected /\ calls[c].amount # <<>>)
       => \E d \in Calls :
             /\ ConnectedBy(d)
             /\ WithdrawsOnce(calls[c], Contract(WROSE_CONTRACT_BY_NETWORK[calls[d].chainId],
                                                 SapphireWrap(Web3Provider(d))))

\* C11 amended: the same, for every non-empty amount that is a decimal
\* numeral with no non-zero digit beyond the 18th decimal.
C11_UnwrapWithdrawsOnce_Decimal ==
    \A c \in Calls :
       ( /\ calls[c].op = "unwrap" /\ calls[c].wasConnected /\ calls[c].amount # <<>>
         /\ IsDecimalAmount(calls[c].amount) )
       => \E d \in Calls :
             /\ ConnectedBy(d)
             /\ WithdrawsOnce(calls[c], Contract(WROSE_CONTRACT_BY_NETWORK[calls[d].chainId],
                                                 SapphireWrap(Web3Provider(d))))

\* unwrap("1") was called while connected and has returned.
C11_Witness ==
    \E c \in Calls :
       /\ calls[c].op = "unwrap"
       /\ calls[c].wasConnected
       /\ calls[c].amount = Amt1
       /\ calls[c].pc = "done" /\ calls[c].result = "ok"
       /\ calls[c].sent[1].args = << <<"1">> \o Zeros(18) >>

----------------------------------------------------------------------------
(* C12 *)

DirectWrap == "wrapBySendingROSEDirectlyToContract"

\* The requests of call that go through the contract handle.
ContractCalls(call) ==
    {i \in 1..Len(call.sent) : call.sent[i].method \in {"deposit", "withdraw", "balanceOf"}}

\* The raw transactions call has submitted through window.ethereum.request.
RawSubmissions(call) ==
    {i \in 1..Len(call.sent) : call.sent[i].method = "eth_sendTransaction"}

\* request is eth_sendTransaction with one transaction, from account to the
\* contract address, of value amount * 10^18 and gas limit 100000, whose
\* gasLimit, gasPrice and nonce fields, when present, are strings.
IsRawWrapTransaction(request, account, contractAddress, amount) ==
    /\ request.method = "eth_sendTransaction"
    /\ Len(request.params) = 1
    /\ LET tx == request.params[1]
       IN  /\ {"from", "to", "value", "gasLimit"} \subseteq DOMAIN tx
           /\ tx.from = account
           /\ tx.to = contractAddress
           /\ IsAmountInBaseUnits(tx.value, amount)
           /\ tx.gasLimit = [t |-> "string", v |-> <<"1", "0", "0", "0", "0", "0">>]
           /\ \A key \in {"gasLimit", "gasPrice", "nonce"} \cap DOMAIN tx :
                 tx[key].t = "string"

\* C12 as stated: while connected, a wrapBySendingDirectly(amount) call
\* submits exactly one raw transaction through eth_sendTransaction and makes
\* no call through the contract handle; the transaction goes from the session
\* account to the contract address with value amount * 10^18, gas limit
\* 100000 and gasLimit, gasPrice and nonce as strings.
C12_DirectWrapSubmitsOneRawTx ==
    \A c \in Calls :
       (calls[c].op = DirectWrap /\ calls[c].wasConnected /\ calls[c].pc = "done")
       => /\ ContractCalls(calls[c]) = {}
          /\ Cardinality(RawSubmissions(calls[c])) = 1
          /\ \E d \in Calls :
                /\ ConnectedBy(d)
                /\ IsRawWrapTransaction(calls[c].sent[Len(calls[c].sent)],
                      calls[d].account, WROSE_CONTRACT_BY_NETWORK[calls[d].chainId],
                      calls[c].amount)

\* A direct wrap issued while connected with a decimal amount: it never calls
\* the contract handle, submits nothing before populateTransaction has
\* answered and nothing if that rejects, and otherwise submits one raw
\* transaction of the claimed shape.
DirectWrapSubmission(c) ==
    ( /\ calls[c].op = DirectWrap /\ calls[c].wasConnected
      /\ IsDecimalAmount(calls[c].amount) )
    => /\ ContractCalls(calls[c]) = {}
       /\ calls[c].result \in {"pending", "ok", "ProviderError"}
       /\ IF calls[c].pc = "awaitPopulate" \/ Len(calls[c].sent) = 1
          THEN RawSubmissions(calls[c]) = {}
          ELSE /\ Len(calls[c].sent) = 2
               /\ RawSubmissions(calls[c]) = {2}
               /\ \E d \in Calls :
                     /\ ConnectedBy(d)
                     /\ IsRawWrapTransaction(calls[c].sent[2],
                           calls[d].account, WROSE_CONTRACT_BY_NETWORK[calls[d].chainId],
                           calls[c].amount)
       /\ (calls[c].pc = "awaitSubmit" \/ calls[c].result = "ok")
             => Len(calls[c].sent) = 2

\* The step that issues a direct wrap on a connected session reads the sender
\* and the recipient from the session record of that moment.
DirectWrapReadsSession(c) ==
    ( /\ Issued(c) /\ calls'[c].op = DirectWrap
      /\ state.isConnected /\ IsDecimalAmount(calls'[c].amount) )
    => /\ calls'[c].pc = "awaitPopulate"
       /\ calls'[c].sent[1].method = "populateTransaction"
       /\ calls'[c].sent[1].tx.from = state.account
       /\ calls'[c].sent[1].tx.to = state.wRoseContract.address

\* The step that submits keeps the sender, recipient and value it asked
\* populateTransaction for.
DirectWrapKeepsFields(c) ==
    (calls[c].pc = "awaitPopulate" /\ calls'[c].pc = "awaitSubmit")
    => LET asked == calls[c].sent[1].tx
           tx == calls'[c].sent[2].params[1]
       IN  tx.from = asked.from /\ tx.to = asked.to /\ tx.value = asked.value

\* C12 amended: the same, for an amount that is a decimal numeral with no
\* non-zero digit beyond the 18th decimal and once populateTransaction has
\* answered; with another amount, or when populateTransaction rejects, the
\* call throws and submits nothing.
C12_DirectWrapSubmitsOneRawTx_Decimal ==
    /\ [](\A c \in Calls : DirectWrapSubmission(c))
    /\ [][\A c \in Calls : DirectWrapReadsSession(c) /\ DirectWrapKeepsFields(c)]_vars

\* wrapBySendingDirectly("1") was called while connected, populateTransaction
\* answered with a gas price and a nonce, and the call has returned.
C12_Witness ==
    \E c \in Calls :
       /\ calls[c].op = DirectWrap
       /\ calls[c].wasConnected
       /\ calls[c].amount = Amt1
       /\ calls[c].pc = "done" /\ calls[c].result = "ok"
       /\ {"gasPrice", "nonce"} \subseteq DOMAIN calls[c].sent[2].params[1]
       /\ calls[c].sent[2].params[1].value = <<"1">> \o Zeros(18)

----------------------------------------------------------------------------
(* C13 *)

\* Call d is a wrap whose deposit on contract handle wRoseContract has been
\* submitted and not yet answered.
DepositInFlight(d, wRoseContract) ==
    /\ calls[d].op = "wrap"
    /\ calls[d].pc = "awaitSubmit"
    /\ calls[d].sent[1].method = "deposit"
    /\ calls[d].sent[1].contract = wRoseContract

\* C13: there is no mutual exclusion on submission: a wrap call (with a
\* decimal amount) issued while connected and while other wrap calls on the
\* same contract handle still await their submission response submits its
\* own deposit and leaves the others in flight, so n overlapping wrap calls
\* make n submissions.
C13_OverlappingWrapsAllSubmit ==
    [][\A c \in Calls :
          LET others == {d \in Calls : DepositInFlight(d, state.wRoseContract)}
          IN  ( /\ Issued(c) /\ calls'[c].op = "wrap"
                /\ state.isConnected
                /\ IsDecimalAmount(calls'[c].amount)
                /\ others # {} )
              => /\ calls'[c].pc = "awaitSubmit"
                 /\ Len(calls'[c].sent) = 1
                 /\ calls'[c].sent[1].method = "deposit"
                 /\ calls'[c].sent[1].contract = state.wRoseContract
                 /\ \A d \in others : calls'[d] = calls[d]
                 /\ Cardinality({d \in Calls : calls'[d].pc = "awaitSubmit"
                                    /\ calls'[d].op = "wrap"})
                       >= Cardinality(others) + 1]_vars

\* Two deposits on the same contract handle are in flight at once.
C13_Witness ==
    \E c, d \in Calls :
       /\ c # d
       /\ state.isConnected
       /\ DepositInFlight(c, state.wRoseContract)
       /\ DepositInFlight(d, state.wRoseContract)

----------------------------------------------------------------------------
(* C14 *)

\* This step ends the initializer of connect call c.
InitCompletes(c) == InitSucceeds(c) \/ InitFails(c)

\* C14: when connectWallet calls overlap, isConnected follows the
\* initialization that completed last: every step that ends an initializer,
\* whatever other connect calls are suspended or have completed before it,
\* makes isConnected true if it succeeded and false if it failed (so a failing
\* initialization completing after a succeeding one leaves it false), and no
\* other step changes isConnected.
C14_LastCompletedInitDecides ==
    [][/\ \A c \in Calls :
             InitCompletes(c) => (state'.isConnected <=> InitSucceeds(c))
       /\ (\A c \in Calls : ~InitCompletes(c))
             => state'.isConnected = state.isConnected]_vars

\* Two connects overlapped: c was issued first and was still suspended when d
\* was issued; d succeeded and then c failed, and the session is disconnected
\* with the handles of d.
C14_Witness ==
    \E c, d \in Calls :
       /\ c < d
       /\ InitFailedIn(c) /\ ConnectedBy(d)
       /\ \A e \in Calls \ {c, d} : calls[e].op # "connectWallet"
       /\ state.wRoseContract # null
       /\ state.wRoseContract.by = d
       /\ ~state.isConnected

----------------------------------------------------------------------------
(* C15 *)

\* The four connection fields of session record s are the ones the
\* initializer of connect call d wrote.
WrittenBy(s, d) ==
    /\ s.ethProvider = Web3Provider(d)
    /\ s.sapphireEthProvider = SapphireWrap(Web3Provider(d))
    /\ calls[d].chainId \in DOMAIN WROSE_CONTRACT_BY_NETWORK
    /\ s.wRoseContract = Contract(WROSE_CONTRACT_BY_NETWORK[calls[d].chainId],
                                  SapphireWrap(Web3Provider(d)))
    /\ s.account = calls[d].account

\* C15: in every reachable state, through failed and overlapping connects
\* too, the two providers, the contract and the account are either all null
\* or all non-null, and when non-null they were all written by one and the
\* same successful initialization.
C15_HandlesAllOrNoneFromOneInit ==
    \/ NoHandles(state)
    \/ /\ AllHandles(state)
       /\ \E d \in Calls : ConnectedBy(d) /\ WrittenBy(state, d)

\* Two connects on different accounts overlapped and both succeeded, the one
\* issued first completing last; a third connect failed; the session holds
\* the handles and the account of the first one.
C15_Witness ==
    \E d, e, f \in Calls :
       /\ d < e
       /\ ConnectedBy(d) /\ ConnectedBy(e) /\ InitFailedIn(f)
       /\ calls[d].account # calls[e].account
       /\ calls[d].chainId # calls[e].chainId
       /\ WrittenBy(state, d)
       /\ ~state.isConnected

----------------------------------------------------------------------------
(* C17 *)

\* C17: a direct wrap issued while any of account, base provider or contract
\* handle is null is a no-op for any amount, the empty one included: it
\* returns without throwing in the step that issues it, builds no
\* transaction and issues no request, and the session state is unchanged.
C17_DirectWrapNoOpWithoutHandles ==
    [][\A c \in Calls :
          ( /\ Issued(c) /\ calls'[c].op = "wrapBySendingROSEDirectlyToContract"
            /\ \/ state.account = nullAccount
               \/ state.ethProvider = null
               \/ state.wRoseContract = null )
          => /\ calls'[c].pc = "done"
             /\ calls'[c].result = "ok"
             /\ calls'[c].ret = <<>>
             /\ calls'[c].sent = <<>>
             /\ state' = state]_vars

\* Before any connect succeeded the direct wrap was called with the empty
\* amount and with an amount that is no number, and both calls returned.
C17_Witness ==
    \E c, d \in Calls :
       /\ calls[c].op = "wrapBySendingROSEDirectlyToContract"
       /\ calls[d].op = "wrapBySendingROSEDirectlyToContract"
       /\ calls[c].amount = AmtEmpty /\ calls[d].amount = AmtBad
       /\ calls[c].pc = "done" /\ calls[d].pc = "done"
       /\ NoHandles(state)

----------------------------------------------------------------------------
(* C16 *)

\* Call c is suspended on a provider call.
Suspended(c) == calls[c].pc \notin {"idle", "done"}

\* The provider call that call c is suspended on answers or rejects.
Respond(c) ==
    \/ connectWallet_rejected(c)
    \/ \E account \in Accounts \cup {"undefined"} : connectWallet_accounts(c, account)
    \/ _init_rejected(c)
    \/ \E chainId \in ChainIds : _init_network(c, chainId)
    \/ \E wei \in Balances : balance_answered(c, wei)
    \/ balance_rejected(c)
    \/ submit_answered(c)
    \/ submit_rejected(c)
    \/ \E populated \in Populated : populate_answered(c, populated)
    \/ populate_rejected(c)

\* The session with a provider that eventually answers (or rejects) every
\* call made to it.
SpecResponsive == Spec /\ \A c \in Calls : WF_vars(Respond(c))

\* No step cancels or times out a suspended call: while call c is suspended,
\* a step that changes its record is the answer (or the rejection) of the
\* provider call it is suspended on and changes no other call's record, and
\* a step that leaves a connect call suspended and changes the session state
\* is the end of another connect's initializer.
NoTimeoutOrCancellation ==
    [][\A c \in Calls :
          Suspended(c) =>
             /\ calls'[c] # calls[c] =>
                   /\ Respond(c)
                   /\ \A d \in Calls \ {c} : calls'[d] = calls[d]
             /\ ( /\ calls[c].op = "connectWallet"
                  /\ Suspended(c)'
                  /\ state' # state )
                => \E d \in Calls \ {c} : InitCompletes(d)]_vars

\* C16: no operation has a timeout or a cancellation (a suspended call is
\* completed by nothing but the answer to its own provider call, and a hung
\* connectWallet does not change the session state); and when every provider
\* call eventually answers, every connectWallet call eventually completes,
\* successfully or by throwing.
C16_NoTimeoutAndConnectCompletes ==
    /\ NoTimeoutOrCancellation
    /\ \A c \in Calls :
          (calls[c].op = "connectWallet")
             ~> (calls[c].pc = "done" /\ calls[c].result # "pending")

\* A connect is hung on getNetwork while the session, connected by an
\* earlier connect, is unchanged, and another connect has completed.
C16_Witness ==
    \E c, d \in Calls :
       /\ d < c
       /\ calls[c].op = "connectWallet" /\ calls[c].pc = "awaitNetwork"
       /\ ConnectedBy(d)
       /\ state.isConnected /\ WrittenBy(state, d)

====
